---- MODULE Spec2Model ----
(***************************************************************************)
(* Model of update_hic_header_stream.cpp: the tool that inserts the        *)
(* "statistics" and "graphs" attributes after the "software" attribute of  *)
(* a .hic file header, copies the rest of the file, and then adds the      *)
(* byte-size difference to the absolute offsets stored in the file.        *)
(*                                                                         *)
(* Files are sequences of bytes (0..255).  A stream position p means that  *)
(* the next byte read is element p+1 of the sequence.  64-bit integers are *)
(* kept as their 8 little-endian bytes and added/subtracted byte by byte,  *)
(* so the arithmetic is exactly modulo 2^64.                               *)
(***************************************************************************)
EXTENDS Integers, Sequences, FiniteSets, TLC

(***************************************************************************)
(* Bounds of the input family.                                             *)
(***************************************************************************)
\* longest original attribute list
MaxAttrs == 3
\* most master-index entries
MaxEntries == 2
\* most normalization-vector-index entries
MaxNorm == 1
\* most attributes and index entries of one file, taken together
MaxTotal == 4

(***************************************************************************)
(* Byte strings used by the program and by the input files.                *)
(***************************************************************************)
software == <<115, 111, 102, 116, 119, 97, 114, 101>>
statistics == <<115, 116, 97, 116, 105, 115, 116, 105, 99, 115>>
graphs == <<103, 114, 97, 112, 104, 115>>
keyA == <<97>>
Zero4 == <<0, 0, 0, 0>>
Zero8 == <<0, 0, 0, 0, 0, 0, 0, 0>>

(***************************************************************************)
(* Little-endian integers (lines 12-23).                                   *)
(***************************************************************************)
\* int32_t value of 4 bytes
readInt32LE(p) ==
    p[1] + 256 * p[2] + 65536 * p[3]
      + 16777216 * (IF p[4] >= 128 THEN p[4] - 256 ELSE p[4])

\* the 4 bytes of an int32_t value
writeInt32LE(v) ==
    << v % 256, (v \div 256) % 256, (v \div 65536) % 256,
       (v \div 16777216) % 256 >>

\* an int64_t is kept as its 8 bytes: memcpy in both directions
readInt64LE(p) == p
writeInt64LE(v) == v

\* the 8 two's-complement bytes of an integer of small magnitude
ToU64(n) ==
    [k \in 1..8 |->
        IF k <= 3 THEN (n \div (256 ^ (k - 1))) % 256
        ELSE IF k = 4 THEN (n \div 16777216) % 256
        ELSE IF n < 0 THEN 255 ELSE 0]

\* the carry out of byte k of a + b
RECURSIVE Carry(_, _, _)
Carry(a, b, k) ==
    IF k = 0 THEN 0 ELSE (a[k] + b[k] + Carry(a, b, k - 1)) \div 256

\* a + b modulo 2^64 on 8-byte values
Add64(a, b) == [k \in 1..8 |-> (a[k] + b[k] + Carry(a, b, k - 1)) % 256]

\* the borrow out of byte k of a - b
RECURSIVE Borrow(_, _, _)
Borrow(a, b, k) ==
    IF k = 0 THEN 0
    ELSE IF a[k] - b[k] - Borrow(a, b, k - 1) < 0 THEN 1 ELSE 0

\* a - b modulo 2^64 on 8-byte values
Sub64(a, b) == [k \in 1..8 |-> (a[k] - b[k] - Borrow(a, b, k - 1)) % 256]

\* 8 bytes whose int64_t value has a magnitude below 2^31
Small64(p) ==
    \/ p[5] = 0 /\ p[6] = 0 /\ p[7] = 0 /\ p[8] = 0 /\ p[4] < 128
    \/ p[5] = 255 /\ p[6] = 255 /\ p[7] = 255 /\ p[8] = 255 /\ p[4] >= 128

\* the int64_t value of such bytes
Int64Val(p) ==
    p[1] + 256 * p[2] + 65536 * p[3]
      + 16777216 * (IF p[4] >= 128 THEN p[4] - 256 ELSE p[4])

\* the sign bit of an int64_t
Neg64(p) == p[8] >= 128

(***************************************************************************)
(* Attribute lists.                                                        *)
(***************************************************************************)
\* key\0value\0 of one attribute
AttrBytes(a) == a.key \o <<0>> \o a.value \o <<0>>

RECURSIVE SerializeAttrs(_)
SerializeAttrs(as) ==
    IF Len(as) = 0 THEN <<>>
    ELSE AttrBytes(Head(as)) \o SerializeAttrs(Tail(as))

\* a.key.size() + 1 + a.value.size() + 1 (lines 212, 214)
AttrSize(a) == Len(a.key) + 1 + Len(a.value) + 1

\* the sums of lines 211-214
RECURSIVE AttrListBytes(_)
AttrListBytes(as) ==
    IF Len(as) = 0 THEN 0
    ELSE AttrSize(Head(as)) + AttrListBytes(Tail(as))

(***************************************************************************)
(* The input files.  A design describes a .hic file; HicFile lays it out   *)
(* in the byte layout the program reads: magic, version, footer position,  *)
(* genome id, (version > 8) normalization-vector-index position and        *)
(* length, attribute count, attributes, chromosome dictionary, resolution  *)
(* arrays, payload, master index, (version > 8) normalization-vector       *)
(* index.                                                                  *)
(***************************************************************************)
KeyIds == {"a", "software", "statistics", "graphs"}

KeyBytes(id) ==
    CASE id = "a" -> keyA
      [] id = "software" -> software
      [] id = "statistics" -> statistics
      [] id = "graphs" -> graphs

\* the value of the i-th original attribute: distinct per position, and
\* longer for the keys that the edit replaces
ValueBytes(id, i) ==
    CASE id = "statistics" ->
            <<120, 120, 120, 120, 120, 120, 120, 120, 120, 120, 120, 48 + i>>
      [] id = "graphs" -> <<122, 48 + i>>
      [] OTHER -> <<48 + i>>

DesignAttrs(keys) ==
    [i \in 1..Len(keys) |->
        [key |-> KeyBytes(keys[i]), value |-> ValueBytes(keys[i], i)]]

\* where a stored position points: before the attribute list, or at the
\* payload that follows the header
PosKinds == {"before", "data"}

SeqsUpTo(S, n) == UNION {[1..k -> S] : k \in 0..n}

magicBytes == <<72, 73, 67, 0>>
genomeBytes == <<103, 0>>
payloadBytes == <<201, 202>>

\* chromosome dictionary: one chromosome "c", size 4 bytes (v8) or 8 (v9)
ChrDictBytes(version) ==
    writeInt32LE(1) \o <<99, 0>>
      \o (IF version > 8 THEN ToU64(3) ELSE writeInt32LE(3))

\* resolution arrays: one base-pair resolution, no fragment resolution
ResolutionBytes == writeInt32LE(1) \o writeInt32LE(5) \o writeInt32LE(0)

\* offsets of the header fields of a design's file
FooterPosFieldOf(d) == Len(magicBytes) + 4
NviPosFieldOf(d) == FooterPosFieldOf(d) + 8 + Len(genomeBytes)
AttrCountFieldOf(d) ==
    IF d.version > 8 THEN NviPosFieldOf(d) + 16 ELSE NviPosFieldOf(d)
AttrListStartOf(d) == AttrCountFieldOf(d) + 4
AttrListEndOf(d) == AttrListStartOf(d) + AttrListBytes(DesignAttrs(d.keys))
DataStartOf(d) ==
    AttrListEndOf(d) + Len(ChrDictBytes(d.version)) + Len(ResolutionBytes)
FooterPosOf(d) == DataStartOf(d) + Len(payloadBytes)
FooterSizeWidth(d) == IF d.version > 8 THEN 8 ELSE 4

\* the position a kind stands for
PosOf(d, kind) == IF kind = "before" THEN 5 ELSE DataStartOf(d)

\* master-index entry k: key of k letters, position, size
MasterKey(k) == [j \in 1..k |-> 107]
MasterEntryBytes(d, k) ==
    MasterKey(k) \o <<0>> \o ToU64(PosOf(d, d.master[k])) \o writeInt32LE(k)

RECURSIVE MasterEntriesBytes(_, _)
MasterEntriesBytes(d, k) ==
    IF k > Len(d.master) THEN <<>>
    ELSE MasterEntryBytes(d, k) \o MasterEntriesBytes(d, k + 1)

MasterBytes(d) ==
    LET es == MasterEntriesBytes(d, 1)
    IN  (IF d.version > 8 THEN ToU64(4 + Len(es))
         ELSE writeInt32LE(4 + Len(es)))
          \o writeInt32LE(Len(d.master)) \o es

\* offset of the position field of master-index entry k
RECURSIVE MasterPosFieldOf(_, _)
MasterPosFieldOf(d, k) ==
    IF k = 1 THEN FooterPosOf(d) + FooterSizeWidth(d) + 4 + 2
    ELSE MasterPosFieldOf(d, k - 1) + 12 + k + 1

\* normalization-vector-index entry k: type "t", chromosome index, unit
\* "u", resolution, position, size
NormEntryBytes(d, k) ==
    <<116, 0>> \o writeInt32LE(k) \o <<117, 0>> \o writeInt32LE(5)
      \o ToU64(PosOf(d, d.norm[k])) \o ToU64(3)

RECURSIVE NormEntriesBytes(_, _)
NormEntriesBytes(d, k) ==
    IF k > Len(d.norm) THEN <<>>
    ELSE NormEntryBytes(d, k) \o NormEntriesBytes(d, k + 1)

NviBytes(d) ==
    IF d.hasNvi THEN writeInt32LE(Len(d.norm)) \o NormEntriesBytes(d, 1)
    ELSE <<>>

\* the stored normalization-vector-index position: 0 when there is none
NviPosOf(d) == IF d.hasNvi THEN FooterPosOf(d) + Len(MasterBytes(d)) ELSE 0

\* offset of the position field of normalization-vector-index entry k
NormPosFieldOf(d, k) == NviPosOf(d) + 4 + (k - 1) * 28 + 12

HicFile(d) ==
    magicBytes \o writeInt32LE(d.version) \o ToU64(FooterPosOf(d))
      \o genomeBytes
      \o (IF d.version > 8
            THEN ToU64(NviPosOf(d)) \o ToU64(Len(NviBytes(d)))
            ELSE <<>>)
      \o writeInt32LE(Len(d.keys))
      \o SerializeAttrs(DesignAttrs(d.keys))
      \o ChrDictBytes(d.version) \o ResolutionBytes
      \o payloadBytes \o MasterBytes(d) \o NviBytes(d)

Designs ==
    { d \in [version : {8, 9},
             keys : SeqsUpTo(KeyIds, MaxAttrs),
             master : SeqsUpTo(PosKinds, MaxEntries),
             hasNvi : BOOLEAN,
             norm : SeqsUpTo(PosKinds, MaxNorm)] :
        /\ d.version <= 8 => ~d.hasNvi
        /\ ~d.hasNvi => d.norm = <<>>
        /\ Len(d.keys) + Len(d.master) + Len(d.norm) <= MaxTotal }

(***************************************************************************)
(* Streams.  A stream is [pos, ok]; once a read runs into the end of the   *)
(* file the stream is failed (eofbit | failbit) and, as the program never  *)
(* calls clear(), every later read, seek and write on it does nothing.     *)
(***************************************************************************)
Good(p) == [pos |-> p, ok |-> TRUE]
Failed(s) == [pos |-> s.pos, ok |-> FALSE]

\* bytes left to read
Avail(f, s) == IF s.ok /\ s.pos < Len(f) THEN Len(f) - s.pos ELSE 0

\* stream.read(buf, n): a short read stores what there is, leaves the rest
\* of buf as it was and fails the stream
StreamRead(f, s, n, old) ==
    LET a == Avail(f, s)
    IN  IF ~s.ok THEN [s |-> s, buf |-> old, cnt |-> 0]
        ELSE IF a >= n
          THEN [s |-> Good(s.pos + n),
                buf |-> SubSeq(f, s.pos + 1, s.pos + n), cnt |-> n]
        ELSE [s |-> Failed(s),
              buf |-> SubSeq(f, s.pos + 1, s.pos + a) \o SubSeq(old, a + 1, n),
              cnt |-> a]

\* index of the first zero byte at or after index j, 0 when there is none
RECURSIVE FindNul(_, _)
FindNul(f, j) ==
    IF j > Len(f) THEN 0 ELSE IF f[j] = 0 THEN j ELSE FindNul(f, j + 1)

\* stream.seekg(off, beg) / seekp(off, beg): a negative offset fails
SeekBeg(s, off) ==
    IF ~s.ok THEN s ELSE IF off < 0 THEN Failed(s) ELSE Good(off)

\* stream.seekg(n, cur)
SeekCur(s, n) == IF ~s.ok THEN s ELSE Good(s.pos + n)

\* seek to a position held as int64_t: a value of 2^31 or more lies past
\* the end of every file of the model
SeekBeg64(s, p) ==
    IF Small64(p) THEN SeekBeg(s, Int64Val(p))
    ELSE IF Neg64(p) THEN SeekBeg(s, -1)
    ELSE SeekBeg(s, 1073741824)

\* stream.write(buf, n) at the stream position
StreamWrite(f, s, buf) ==
    IF ~s.ok THEN f
    ELSE LET n == Len(buf)
             padded == IF Len(f) >= s.pos THEN f
                       ELSE f \o [j \in 1..(s.pos - Len(f)) |-> 0]
         IN  SubSeq(padded, 1, s.pos) \o buf
               \o SubSeq(padded, s.pos + n + 1, Len(padded))

ReadInto4(r, x) == [r EXCEPT !.s = x.s, !.tmp4 = x.buf]
ReadInto8(r, x) == [r EXCEPT !.s = x.s, !.tmp8 = x.buf]

(***************************************************************************)
(* PASS 1: the header reader (lines 82-184).  The reader state r holds    *)
(* the input stream fin, the variables c, tmp4 and tmp8 that the reads     *)
(* reuse, and stuck: the program is in a loop that waits for a zero byte   *)
(* that no read can deliver any more.                                      *)
(***************************************************************************)
Read4(f, r) == ReadInto4(r, StreamRead(f, r.s, 4, r.tmp4))

Read8(f, r) == ReadInto8(r, StreamRead(f, r.s, 8, r.tmp8))

\* the loops "fin.read(&c,1); push_back(c); until c == 0" (lines 99, 113,
\* 136, 137, 153-156): str is what was read before the zero byte.  A failed
\* read leaves c as it was, so the loop ends at once when c is 0 and never
\* when c is not.
ReadStrTo(f, r, j) ==
    IF j = 0
      THEN [r |-> [r EXCEPT !.s = Failed(r.s), !.c = f[Len(f)],
                            !.stuck = TRUE],
            str |-> SubSeq(f, r.s.pos + 1, Len(f))]
    ELSE [r |-> [r EXCEPT !.s = Good(j), !.c = 0],
          str |-> SubSeq(f, r.s.pos + 1, j - 1)]

ReadStr(f, r) ==
    IF r.stuck THEN [r |-> r, str |-> <<>>]
    ELSE IF Avail(f, r.s) = 0
      THEN [r |-> [r EXCEPT !.s = Failed(r.s), !.stuck = (r.c # 0)],
            str |-> <<>>]
    ELSE ReadStrTo(f, r, FindNul(f, r.s.pos + 1))

\* headerBuf.insert / push_back of what was just read
PushHdr4(r) == [r EXCEPT !.headerBuf = @ \o r.tmp4]
PushHdr8(r) == [r EXCEPT !.headerBuf = @ \o r.tmp8]
PushHdrStr(k) == [k.r EXCEPT !.headerBuf = @ \o k.str \o <<0>>]

\* readPush (lines 91-95): exit(1) when the read failed
MarkEof(r) == [r EXCEPT !.eof = @ \/ ~r.s.ok]

\* a) magic (line 99), d) genomeID (line 113)
StReadPushStr(f, r) == MarkEof(PushHdrStr(ReadStr(f, r)))

\* b) version (lines 102-104) and the offset of the next field (line 107)
SetVersion(r) ==
    [r EXCEPT !.version = readInt32LE(r.tmp4),
              !.footerPosField = Len(r.headerBuf)]
StVersion(f, r) == SetVersion(PushHdr4(Read4(f, r)))

\* c) footerPosition (lines 108-110)
SetFooterPos(r) == [r EXCEPT !.origFooterPos = readInt64LE(r.tmp8)]
StFooterPos(f, r) == SetFooterPos(PushHdr8(Read8(f, r)))

\* e) normVectorIndexPosition and length (lines 116-125)
MarkNviField(r) == [r EXCEPT !.nviPosField = Len(r.headerBuf)]
SetNviPos(r) == [r EXCEPT !.origNviPos = readInt64LE(r.tmp8)]
SetNviLen(r) == [r EXCEPT !.origNviLen = readInt64LE(r.tmp8)]
StNvi(f, r) ==
    IF r.version > 8
      THEN SetNviLen(PushHdr8(Read8(f,
             SetNviPos(PushHdr8(Read8(f, MarkNviField(r)))))))
    ELSE r

\* f) attribute count (lines 128-130)
MarkAttrCount(r) == [r EXCEPT !.attrCountField = Len(r.headerBuf)]
StAttrCount(f, r) == PushHdr4(Read4(f, MarkAttrCount(r)))

\* one key or value (lines 136, 137)
AttrStr(k) == [r |-> PushHdrStr(k), str |-> k.str]
ReadAttrStr(f, r) == AttrStr(ReadStr(f, r))

\* one attribute (lines 135-138)
PushAttr(k, v) ==
    [v.r EXCEPT !.origAttrs = Append(@, [key |-> k.str, value |-> v.str])]
ReadAttrValue(f, k) == PushAttr(k, ReadAttrStr(f, k.r))
ReadAttr(f, r) == ReadAttrValue(f, ReadAttrStr(f, r))

\* g) the attributes (lines 133-140)
RECURSIVE ReadAttrs(_, _, _)
ReadAttrs(f, r, cnt) ==
    IF cnt <= 0 \/ r.stuck THEN r
    ELSE ReadAttrs(f, ReadAttr(f, r), cnt - 1)

MarkAttrListEnd(r) == [r EXCEPT !.attrListEnd = Len(r.headerBuf)]
StAttrs(f, r) == MarkAttrListEnd(ReadAttrs(f, r, readInt32LE(r.tmp4)))

\* chrDictBuf.insert / push_back of what was just read
PushChr4(r) == [r EXCEPT !.chrDictBuf = @ \o r.tmp4]
PushChr8(r) == [r EXCEPT !.chrDictBuf = @ \o r.tmp8]
PushChrStr(k) == [k.r EXCEPT !.chrDictBuf = @ \o k.str \o <<0>>]

\* one chromosome (lines 152-163)
ReadChrSize(f, r) ==
    IF r.version > 8 THEN PushChr8(Read8(f, r)) ELSE PushChr4(Read4(f, r))
ReadChr(f, r) == ReadChrSize(f, PushChrStr(ReadStr(f, r)))

RECURSIVE ReadChrs(_, _, _)
ReadChrs(f, r, cnt) ==
    IF cnt <= 0 \/ r.stuck THEN r
    ELSE ReadChrs(f, ReadChr(f, r), cnt - 1)

\* h) chromosome dictionary (lines 143-164)
ChrsOf(f, r) == ReadChrs(f, r, readInt32LE(r.tmp4))
StChrs(f, r) == ChrsOf(f, PushChr4(Read4(f, r)))

\* resolutionBuf.insert of what was just read
PushRes4(r) == [r EXCEPT !.resolutionBuf = @ \o r.tmp4]

RECURSIVE ReadInts(_, _, _)
ReadInts(f, r, cnt) ==
    IF cnt <= 0 THEN r
    ELSE ReadInts(f, PushRes4(Read4(f, r)), cnt - 1)

\* one resolution array: the count, then the values (lines 171-175,
\* 178-182)
IntsOf(f, r) == ReadInts(f, r, readInt32LE(r.tmp4))
ReadResArray(f, r) == IntsOf(f, PushRes4(Read4(f, r)))

\* i) resolution arrays (lines 167-182)
StRes(f, r) == ReadResArray(f, ReadResArray(f, r))

\* the state at line 88.  tmp4 and tmp8 are uninitialised before their
\* first read; when that read is short the stream is failed and readPush
\* exits at line 113 before any value derived from them is used, so their
\* initial bytes do not matter.
Reader0 ==
    [s |-> Good(0), c |-> 0, tmp4 |-> Zero4, tmp8 |-> Zero8,
     stuck |-> FALSE, eof |-> FALSE,
     version |-> 0, footerPosField |-> 0, origFooterPos |-> Zero8,
     nviPosField |-> 0, origNviPos |-> Zero8, origNviLen |-> Zero8,
     attrCountField |-> 0, origAttrs |-> <<>>, attrListEnd |-> 0,
     headerBuf |-> <<>>, chrDictBuf |-> <<>>, resolutionBuf |-> <<>>]

\* lines 97-182
ReadFields(f) ==
    StRes(f, StChrs(f, StAttrs(f, StAttrCount(f, StNvi(f,
      StReadPushStr(f, StFooterPos(f, StVersion(f,
        StReadPushStr(f, Reader0)))))))))

\* lines 82-184.  result is "eof" when readPush met the end of the input
\* (exit(1), lines 91-95), "stuck" when a loop can no longer end, else
\* "ok"; fin is the input stream, whose position line 184 takes as
\* dataStart.
HeaderResult(r) ==
    r @@
    [result |-> IF r.eof THEN "eof" ELSE IF r.stuck THEN "stuck" ELSE "ok",
     fin |-> r.s]

ReadHeader(f) == HeaderResult(ReadFields(f))

(***************************************************************************)
(* The value files (lines 30-41): every line of the file followed by a     *)
(* newline.  getline splits at the newlines and yields no line for an      *)
(* empty rest, so the result is the content itself, with a newline added   *)
(* when the last line has none.                                            *)
(***************************************************************************)
load_value_file_text(content) ==
    IF content = <<>> THEN <<>>
    ELSE IF content[Len(content)] = 10 THEN content
    ELSE content \o <<10>>

(***************************************************************************)
(* PASS 2: the updated attribute list (lines 188-207) and delta (lines    *)
(* 209-215).                                                               *)
(***************************************************************************)
\* line 194: softwareIdx after looking at key k, newAttrs being acc
NextSoftwareIdx(k, acc, idx) == IF k = software THEN Len(acc) ELSE idx

\* a variant of line 195 that forgets the second key
KeepAttrButGraphs(k) == k # statistics

\* line 195: the attribute is kept
KeepAttr(k) == k # statistics /\ k # graphs

\* lines 191-196
RECURSIVE ScanAttrs(_, _, _, _)
ScanAttrs(orig, j, acc, idx) ==
    IF j > Len(orig) THEN [newAttrs |-> acc, softwareIdx |-> idx]
    ELSE ScanAttrs(orig, j + 1,
                   IF KeepAttr(orig[j].key) THEN Append(acc, orig[j]) ELSE acc,
                   NextSoftwareIdx(orig[j].key, acc, idx))

\* a variant of line 197 that tests for a value softwareIdx never takes
AnchorMissingBelow(idx) == idx < -1

\* line 197: no "software" key was seen
AnchorMissing(idx) == idx = -1

\* lines 203-205: the two pairs go in front of element softwareIdx + 1
\* (counted from 0)
InsertPairs(acc, idx, sv, gv) ==
    SubSeq(acc, 1, idx + 1)
      \o <<[key |-> statistics, value |-> sv], [key |-> graphs, value |-> gv]>>
      \o SubSeq(acc, idx + 2, Len(acc))

\* a variant of line 215 with a 32-bit size_t, which the conversion to
\* int64_t extends with zeros
ComputeDelta32(orig, new) ==
    [k \in 1..8 |->
        IF k <= 4
          THEN Sub64(ToU64(AttrListBytes(new)), ToU64(AttrListBytes(orig)))[k]
        ELSE 0]

\* line 215: size_t delta = newAttrBytes - origAttrBytes, modulo 2^64
ComputeDelta(orig, new) ==
    Sub64(ToU64(AttrListBytes(new)), ToU64(AttrListBytes(orig)))

\* origX + (int64_t)delta (lines 269, 274, 282, 309, 317, 335)
Bump(pos, d) == Add64(pos, d)

(***************************************************************************)
(* The output header (lines 226-246).                                      *)
(***************************************************************************)
OutputHead(h, new) ==
    SubSeq(h.headerBuf, 1, h.attrCountField)
      \o writeInt32LE(Len(new))
      \o SerializeAttrs(new)
      \o h.chrDictBuf \o h.resolutionBuf

\* lines 249-255: what the copy loop reads from the input, src being the
\* bytes the input path holds at that time
CopyRest(h, src) ==
    IF h.fin.ok THEN SubSeq(src, h.fin.pos + 1, Len(src)) ELSE <<>>

(***************************************************************************)
(* PASS 3 helpers.                                                         *)
(***************************************************************************)
\* "do { fupd.get(ch); } while (ch != 0)" with ch not yet assigned
\* (lines 302-303, 324-325): "ok" the zero byte was found; "indet" the
\* first get failed, so the test reads an indeterminate ch; "hang" a later
\* get failed, ch keeps its non-zero value and the loop never ends
SkipStr(f, s) ==
    IF Avail(f, s) = 0 THEN [s |-> Failed(s), res |-> "indet"]
    ELSE LET j == FindNul(f, s.pos + 1)
         IN  IF j = 0 THEN [s |-> Failed(s), res |-> "hang"]
             ELSE [s |-> Good(j), res |-> "ok"]

\* lines 306-311 and 332-337: read the 8-byte position at the stream
\* position, add delta, write it back where it was read
PatchPos(f, s, t8, d) ==
    LET x == StreamRead(f, s, 8, t8)
        v == Bump(readInt64LE(x.buf), d)
        \* seekp(posField): tellg() gave -1 when the stream had failed
        sp == IF s.ok THEN SeekBeg(x.s, s.pos) ELSE SeekBeg(x.s, -1)
    IN  [f |-> StreamWrite(f, sp, writeInt64LE(v)),
         s |-> IF sp.ok THEN Good(sp.pos + 8) ELSE sp,
         tmp8 |-> v,
         at |-> IF sp.ok THEN {sp.pos} ELSE {}]

(***************************************************************************)
(* The program state.                                                      *)
(***************************************************************************)
VARIABLES
    files,      \* path -> the bytes the file holds
    files0,     \* the files before the run
    design,     \* the design the input file was laid out from
    outPath,    \* argv[2]
    statVal,    \* line 77
    graphVal,   \* line 78
    pc,         \* where main is
    exitCode,   \* -1 while running
    diag,       \* what was written to std::cerr
    h,          \* what PASS 1 left behind
    newAttrs,   \* line 189
    delta,      \* line 215, as 8 bytes
    fupd,       \* the stream of PASS 3
    tmp4,       \* line 102
    tmp8,       \* line 108
    i,          \* loop counter of lines 300 and 322
    n,          \* nEntries (line 297) or nNorm (line 320)
    outOpened,  \* the output path has been opened for writing
    patched     \* offsets that PASS 3 wrote 8 bytes to

vars == <<files, files0, design, outPath, statVal, graphVal, pc, exitCode,
          diag, h, newAttrs, delta, fupd, tmp4, tmp8, i, n, outOpened,
          patched>>

inPath == "in.hic"
otherPath == "out.hic"
Paths == {inPath, otherPath}

\* contents of the two value files
StatFiles == {<<>>, <<83>>}
GraphFiles == {<<>>, <<71, 10>>}

\* designs whose files are also given cut short
TruncDesign(d) ==
    /\ d.keys = <<"software">>
    /\ d.master = <<"data">>
    /\ d.version > 8 => d.hasNvi /\ d.norm = <<"data">>

\* designs that are also run with the output path naming the input file
SamePathDesign(d) ==
    /\ d.keys \in {<<"software">>, <<"software", "statistics">>}
    /\ d.master = <<"data">>
    /\ d.version > 8 => d.hasNvi /\ d.norm = <<"data">>

\* the output paths a design is run with
PathsOf(d) == IF SamePathDesign(d) THEN Paths ELSE {otherPath}

\* the lengths the input file of a design is given with
CutsOf(d, op, len) ==
    IF TruncDesign(d) /\ op = otherPath THEN 0..len ELSE {len}

Init ==
    \E d \in Designs, sf \in StatFiles, gf \in GraphFiles :
      \E op \in PathsOf(d) :
      \E cut \in CutsOf(d, op, Len(HicFile(d))) :
        /\ design = d @@ [complete |-> cut = Len(HicFile(d))]
        /\ files0 = [p \in Paths |->
                       IF p = inPath THEN SubSeq(HicFile(d), 1, cut)
                       ELSE <<1, 2, 3>>]
        /\ files = files0
        /\ outPath = op
        /\ statVal = load_value_file_text(sf)
        /\ graphVal = load_value_file_text(gf)
        /\ pc = "pass1"
        /\ exitCode = -1
        /\ diag = "none"
        /\ h = [result |-> "none"]
        /\ newAttrs = <<>>
        /\ delta = Zero8
        /\ fupd = Good(0)
        /\ tmp4 = Zero4
        /\ tmp8 = Zero8
        /\ i = 0
        /\ n = 0
        /\ outOpened = FALSE
        /\ patched = {}

Exit(code, msg) ==
    /\ pc' = "done"
    /\ exitCode' = code
    /\ diag' = msg

\* lines 82-184, the input being complete enough to get through
ReadOk ==
    /\ pc = "pass1"
    /\ ReadHeader(files[inPath]).result = "ok"
    /\ h' = ReadHeader(files[inPath])
    /\ tmp4' = h'.tmp4
    /\ tmp8' = h'.tmp8
    /\ pc' = "pass2"
    /\ UNCHANGED <<files, files0, design, outPath, statVal, graphVal,
                   exitCode, diag, newAttrs, delta, fupd, i, n, outOpened,
                   patched>>

\* lines 91-95: readPush meets the end of the input
ReadEof ==
    /\ pc = "pass1"
    /\ ReadHeader(files[inPath]).result = "eof"
    /\ Exit(1, "Unexpected EOF")
    /\ UNCHANGED <<files, files0, design, outPath, statVal, graphVal, h,
                   newAttrs, delta, fupd, tmp4, tmp8, i, n, outOpened,
                   patched>>

\* lines 136, 137, 153-156: a loop that appends c for ever
ReadStuck ==
    /\ pc = "pass1"
    /\ ReadHeader(files[inPath]).result = "stuck"
    /\ pc' = "hang"
    /\ UNCHANGED <<files, files0, design, outPath, statVal, graphVal,
                   exitCode, diag, h, newAttrs, delta, fupd, tmp4, tmp8, i,
                   n, outOpened, patched>>

\* lines 197-200
NoAnchor ==
    /\ pc = "pass2"
    /\ AnchorMissing(ScanAttrs(h.origAttrs, 1, <<>>, -1).softwareIdx)
    /\ Exit(1, "Could not find 'software'")
    /\ UNCHANGED <<files, files0, design, outPath, statVal, graphVal, h,
                   newAttrs, delta, fupd, tmp4, tmp8, i, n, outOpened,
                   patched>>

\* lines 188-215
BuildAttrs ==
    /\ pc = "pass2"
    /\ LET e == ScanAttrs(h.origAttrs, 1, <<>>, -1)
       IN  /\ ~AnchorMissing(e.softwareIdx)
           /\ newAttrs' = InsertPairs(e.newAttrs, e.softwareIdx, statVal,
                                       graphVal)
    /\ delta' = ComputeDelta(h.origAttrs, newAttrs')
    /\ pc' = "open"
    /\ UNCHANGED <<files, files0, design, outPath, statVal, graphVal,
                   exitCode, diag, h, fupd, tmp4, tmp8, i, n, outOpened,
                   patched>>

\* line 219: std::ofstream creates or truncates the output path
OpenOutput ==
    /\ pc = "open"
    /\ files' = [files EXCEPT ![outPath] = <<>>]
    /\ outOpened' = TRUE
    /\ pc' = "write"
    /\ UNCHANGED <<files0, design, outPath, statVal, graphVal, exitCode,
                   diag, h, newAttrs, delta, fupd, tmp4, tmp8, i, n, patched>>

\* lines 226-257.  When the output path names the input file, the copy
\* loop reads what the output stream has flushed to it so far: any prefix
\* of the new header.
WriteOutput ==
    /\ pc = "write"
    /\ LET head == OutputHead(h, newAttrs)
       IN  \E flushed \in 0..Len(head) :
             /\ outPath # inPath => flushed = 0
             /\ outPath = inPath =>
                  flushed = 0 \/ (h.fin.ok /\ flushed > h.fin.pos)
             /\ files' =
                  [files EXCEPT ![outPath] =
                     head \o CopyRest(h, IF outPath = inPath
                                           THEN SubSeq(head, 1, flushed)
                                           ELSE files[inPath])]
    /\ pc' = "patch"
    /\ UNCHANGED <<files0, design, outPath, statVal, graphVal, exitCode,
                   diag, h, newAttrs, delta, fupd, tmp4, tmp8, i, n,
                   outOpened, patched>>

(***************************************************************************)
(* PASS 3: the pointer patcher (lines 261-342), on the output path.       *)
(***************************************************************************)
\* seekp(off, beg) and write on the freshly opened stream
WriteAt(f, off, bytes) == StreamWrite(f, SeekBeg(Good(0), off), bytes)

\* lines 268-270
PatchFooterField(f, hh, d) ==
    WriteAt(f, hh.footerPosField, writeInt64LE(Bump(hh.origFooterPos, d)))

\* lines 272-279
PatchNviFields(f, hh, d) ==
    IF hh.version > 8
      THEN WriteAt(WriteAt(f, hh.nviPosField,
                           writeInt64LE(Bump(hh.origNviPos, d))),
                   hh.nviPosField + 8, writeInt64LE(hh.origNviLen))
    ELSE f

\* the offsets written by lines 268-279
HeaderFieldsPatched(hh) ==
    {hh.footerPosField}
      \cup (IF hh.version > 8 THEN {hh.nviPosField, hh.nviPosField + 8}
            ELSE {})

\* lines 282-283: the stream at the new footer position; tmp8 holds what
\* writeInt64LE last put there (line 277, or line 269 when version <= 8)
AtFooter(hh, d, t4) ==
    [s |-> SeekBeg64(Good(0), Bump(hh.origFooterPos, d)),
     tmp4 |-> t4,
     tmp8 |-> IF hh.version > 8 THEN hh.origNviLen
              ELSE Bump(hh.origFooterPos, d)]

\* lines 286-293: the footer size, 8 bytes or 4
ReadFooterSize(f, hh, r) ==
    IF hh.version > 8 THEN Read8(f, r) ELSE Read4(f, r)

\* lines 282-297: r.tmp4 holds nEntries
MasterHead(f, hh, d, t4) ==
    Read4(f, ReadFooterSize(f, hh, AtFooter(hh, d, t4)))

\* lines 261-297: the header pointers, then the size and the entry count
\* of the master index
PatchHeader ==
    /\ pc = "patch"
    /\ LET f3 == PatchNviFields(PatchFooterField(files[outPath], h, delta),
                                h, delta)
           r2 == MasterHead(f3, h, delta, tmp4)
       IN  /\ files' = [files EXCEPT ![outPath] = f3]
           /\ fupd' = r2.s
           /\ tmp4' = r2.tmp4
           /\ tmp8' = r2.tmp8
           /\ n' = readInt32LE(r2.tmp4)
    /\ patched' = HeaderFieldsPatched(h)
    /\ i' = 0
    /\ pc' = "master"
    /\ UNCHANGED <<files0, design, outPath, statVal, graphVal, exitCode,
                   diag, h, newAttrs, delta, outOpened>>

\* one turn of the loop of lines 300-313, the first get having delivered
\* a byte
PatchMasterEntry ==
    /\ pc = "master"
    /\ i < n
    /\ LET k == SkipStr(files[outPath], fupd)
       IN  /\ k.res = "ok"
           /\ LET w == PatchPos(files[outPath], k.s, tmp8, delta)
              IN  /\ files' = [files EXCEPT ![outPath] = w.f]
                  /\ tmp8' = w.tmp8
                  /\ patched' = patched \cup w.at
                  \* line 312: skip the size field
                  /\ fupd' = SeekCur(w.s, 4)
    /\ i' = i + 1
    /\ UNCHANGED <<files0, design, outPath, statVal, graphVal, pc, exitCode,
                   diag, h, newAttrs, delta, tmp4, n, outOpened>>

\* lines 302-303 and 324-325 when the loop cannot end: a get failed after
\* ch took a non-zero value, or the first get failed and the indeterminate
\* ch is not zero
PatchHang ==
    /\ pc \in {"master", "nvi"}
    /\ i < n
    /\ SkipStr(files[outPath], fupd).res \in {"hang", "indet"}
    /\ pc' = "hang"
    /\ UNCHANGED <<files, files0, design, outPath, statVal, graphVal,
                   exitCode, diag, h, newAttrs, delta, fupd, tmp4, tmp8, i,
                   n, outOpened, patched>>

\* the turns of either loop once the stream has failed, the indeterminate
\* ch being zero in each: no read, seek or write does anything; only tmp8
\* changes, and nothing reads it before the program ends
PatchDrain ==
    /\ pc \in {"master", "nvi"}
    /\ i < n
    /\ SkipStr(files[outPath], fupd).res = "indet"
    /\ fupd' = Failed(fupd)
    /\ i' = n
    /\ UNCHANGED <<files, files0, design, outPath, statVal, graphVal, pc,
                   exitCode, diag, h, newAttrs, delta, tmp4, tmp8, n,
                   outOpened, patched>>

\* lines 316-320: seek to the normalization-vector index, read nNorm
PatchNviStart ==
    /\ pc = "master"
    /\ i >= n
    /\ h.version > 8
    /\ LET r1 == Read4(files[outPath],
                       [s |-> SeekBeg64(fupd, Bump(h.origNviPos, delta)),
                        tmp4 |-> tmp4, tmp8 |-> tmp8])
       IN  /\ fupd' = r1.s
           /\ tmp4' = r1.tmp4
           /\ n' = readInt32LE(r1.tmp4)
    /\ i' = 0
    /\ pc' = "nvi"
    /\ UNCHANGED <<files, files0, design, outPath, statVal, graphVal,
                   exitCode, diag, h, newAttrs, delta, tmp8, outOpened,
                   patched>>

\* one turn of the loop of lines 322-339, the first get having delivered
\* a byte.  In the second string loop ch is zero when a get fails, so
\* that loop ends.
PatchNviEntry ==
    /\ pc = "nvi"
    /\ i < n
    /\ LET f == files[outPath]
           k1 == SkipStr(f, fupd)
           \* skip chrIdx, then the unit string
           k2 == SkipStr(f, SeekCur(k1.s, 4))
       IN  /\ k1.res = "ok"
           /\ k2.res # "hang"
           \* skip resolution, patch the position, skip sizeInBytes
           /\ LET w == PatchPos(f, SeekCur(k2.s, 4), tmp8, delta)
              IN  /\ files' = [files EXCEPT ![outPath] = w.f]
                  /\ tmp8' = w.tmp8
                  /\ patched' = patched \cup w.at
                  /\ fupd' = SeekCur(w.s, 8)
    /\ i' = i + 1
    /\ UNCHANGED <<files0, design, outPath, statVal, graphVal, pc, exitCode,
                   diag, h, newAttrs, delta, tmp4, n, outOpened>>

\* lines 328: the unit string has no zero byte before the end of the file
PatchNviUnitHang ==
    /\ pc = "nvi"
    /\ i < n
    /\ LET f == files[outPath]
           k1 == SkipStr(f, fupd)
       IN  /\ k1.res = "ok"
           /\ SkipStr(f, SeekCur(k1.s, 4)).res = "hang"
    /\ pc' = "hang"
    /\ UNCHANGED <<files, files0, design, outPath, statVal, graphVal,
                   exitCode, diag, h, newAttrs, delta, fupd, tmp4, tmp8, i,
                   n, outOpened, patched>>

\* lines 342-346
Finish ==
    /\ \/ pc = "master" /\ h.version <= 8
       \/ pc = "nvi"
    /\ i >= n
    /\ Exit(0, "Successfully wrote")
    /\ UNCHANGED <<files, files0, design, outPath, statVal, graphVal, h,
                   newAttrs, delta, fupd, tmp4, tmp8, i, n, outOpened,
                   patched>>

Next ==
    \/ ReadOk
    \/ ReadEof
    \/ ReadStuck
    \/ NoAnchor
    \/ BuildAttrs
    \/ OpenOutput
    \/ WriteOutput
    \/ PatchHeader
    \/ PatchMasterEntry
    \/ PatchHang
    \/ PatchDrain
    \/ PatchNviStart
    \/ PatchNviEntry
    \/ PatchNviUnitHang
    \/ Finish

Spec == Init /\ [][Next]_vars

(***************************************************************************)
(* What the claims speak of, taken from the design of the input file and   *)
(* not from what the program read.                                         *)
(***************************************************************************)
In == files0[inPath]
Out == files[outPath]
Success == pc = "done" /\ exitCode = 0

\* a run on a whole input file, written to another path
Regular == design.complete /\ outPath # inPath

\* the 8-byte field at offset off of file f
Field(f, off) == SubSeq(f, off + 1, off + 8)

\* the stored absolute offsets of the input file: where the field is,
\* what it holds, and whether the field itself lies behind the attributes
\* (so that it is found delta bytes further in the output)
HeaderOffsetFields(d) ==
    {[name |-> "footer", off |-> FooterPosFieldOf(d), val |-> FooterPosOf(d),
      moved |-> FALSE]}
    \cup (IF d.version > 8
            THEN {[name |-> "nvi", off |-> NviPosFieldOf(d),
                   val |-> NviPosOf(d), moved |-> FALSE]}
          ELSE {})

MasterOffsetFields(d) ==
    {[name |-> "master", off |-> MasterPosFieldOf(d, k),
      val |-> PosOf(d, d.master[k]), moved |-> TRUE] :
        k \in 1..Len(d.master)}

NormOffsetFields(d) ==
    {[name |-> "norm", off |-> NormPosFieldOf(d, k),
      val |-> PosOf(d, d.norm[k]), moved |-> TRUE] : k \in 1..Len(d.norm)}

OffsetFields(d) ==
    HeaderOffsetFields(d) \cup MasterOffsetFields(d) \cup NormOffsetFields(d)

\* delta as an integer
D == Int64Val(delta)

\* where a field of the input is found in the output
OutOff(x) == IF x.moved THEN x.off + D ELSE x.off

\* the layout functions agree with the bytes of the input file
LayoutOk ==
    design.complete =>
        \A x \in OffsetFields(design) : Field(In, x.off) = ToU64(x.val)

\* the bytes of the input that lie in a position field of an index entry
InEntryPosField(d, p) ==
    \E x \in MasterOffsetFields(d) \cup NormOffsetFields(d) :
        x.off <= p /\ p < x.off + 8

\* C1: after a successful run every stored offset that pointed at or past
\* the end of the attribute list holds its original value plus delta
C1_OffsetsPastBlockBumped ==
    Success /\ Regular =>
        \A x \in OffsetFields(design) :
            x.val >= AttrListEndOf(design) =>
                Field(Out, OutOff(x)) = ToU64(x.val + D)

\* C2: after a successful run every stored offset that pointed before the
\* attribute list holds its original value
C2_OffsetsBeforeBlockKept ==
    Success /\ Regular =>
        \A x \in OffsetFields(design) :
            x.val < AttrListStartOf(design) =>
                Field(Out, OutOff(x)) = ToU64(x.val)

\* C3: after a successful run the output is delta bytes longer than the
\* input, and every input byte at or past the end of the attribute list
\* is found delta bytes further, the position fields of the index entries
\* excepted
C3_PayloadFidelity ==
    Success /\ Regular =>
        /\ Len(Out) = Len(In) + D
        /\ \A p \in AttrListEndOf(design)..(Len(In) - 1) :
              ~InEntryPosField(design, p) => Out[p + D + 1] = In[p + 1]

\* PASS 2 has built the new attribute list
Edited == Len(newAttrs) > 0

\* the entries of a list that are keyed neither "statistics" nor "graphs"
IsKept(a) == a.key # statistics /\ a.key # graphs
Kept(orig) == SelectSeq(orig, IsKept)

\* list as with the two new pairs put right behind its element p
WithPairsAfter(as, p) ==
    SubSeq(as, 1, p)
      \o <<[key |-> statistics, value |-> statVal],
           [key |-> graphs, value |-> graphVal]>>
      \o SubSeq(as, p + 1, Len(as))

\* the attribute count that the output file holds
OutAttrCount ==
    readInt32LE(SubSeq(Out, AttrCountFieldOf(design) + 1,
                       AttrCountFieldOf(design) + 4))

\* C4: the new list is the original one without its "statistics" and
\* "graphs" entries and with the two new pairs right behind a "software"
\* entry, the other entries in their order; the attribute count written to
\* the output is the length of the new list
C4_InsertAfterAnchor ==
    Edited /\ design.complete =>
        /\ \E p \in 1..Len(Kept(DesignAttrs(design.keys))) :
              /\ Kept(DesignAttrs(design.keys))[p].key = software
              /\ newAttrs = WithPairsAfter(Kept(DesignAttrs(design.keys)), p)
        /\ pc = "patch" => OutAttrCount = Len(newAttrs)

C4_Witness ==
    /\ pc = "patch"
    /\ design.complete
    /\ design.keys = <<"graphs", "software", "a">>

\* the first "software" entry of a list
FirstSoftware(as) ==
    CHOOSE p \in 1..Len(as) :
        /\ as[p].key = software
        /\ \A q \in 1..(p - 1) : as[q].key # software

\* C5: the two pairs are put right behind the first "software" entry
C5_FirstAnchorOnly ==
    Edited /\ design.complete =>
        newAttrs = WithPairsAfter(Kept(DesignAttrs(design.keys)),
                                  FirstSoftware(Kept(DesignAttrs(design.keys))))

\* the parsed attribute list has no "software" key
AnchorAbsent ==
    /\ h.result = "ok"
    /\ \A j \in 1..Len(h.origAttrs) : h.origAttrs[j].key # software

\* C6: without the anchor key the run ends with status 1 and the
\* anchor-not-found message, the output path is never opened, no file
\* changes and the pointer patcher never starts
C6_AnchorAbsentFailsEarly ==
    AnchorAbsent =>
        /\ pc \in {"pass2", "done"}
        /\ pc = "done" =>
              exitCode = 1 /\ diag = "Could not find 'software'"
        /\ ~outOpened
        /\ files = files0
        /\ patched = {}

C6_Witness ==
    /\ AnchorAbsent
    /\ pc = "done"
    /\ design.complete
    /\ design.keys = <<"a", "statistics">>

\* C7: an input that ends inside the header makes the run end with a
\* non-zero status and the format-error message; it never loops for ever
C7_TruncatedHeaderFails ==
    Len(In) < DataStartOf(design) =>
        /\ pc # "hang"
        /\ pc = "done" => exitCode # 0 /\ diag = "Unexpected EOF"

\* C8: the file at the input path holds what it held before the run
C8_InputUntouched == files[inPath] = files0[inPath]

\* the offsets the patcher is to write in the output
MovedFieldOffsets(xs) == {x.off + D : x \in xs}

\* C9: with version <= 8 the reader takes the attribute count right behind
\* the genome id and the patcher writes the footer position and the
\* master-index positions only, found behind a 4-byte size field; with
\* version > 8 the reader takes 16 bytes more, the patcher adds delta to
\* the header position of the normalization-vector index, leaves its
\* length as it was, finds the master-index entries behind an 8-byte size
\* field and adds delta to the position of every entry of the
\* normalization-vector index
C9_VersionGating ==
    Success /\ Regular =>
        IF design.version <= 8
          THEN /\ h.attrCountField = NviPosFieldOf(design)
               /\ patched = {FooterPosFieldOf(design)}
                     \cup MovedFieldOffsets(MasterOffsetFields(design))
        ELSE /\ h.attrCountField = NviPosFieldOf(design) + 16
             /\ Field(Out, NviPosFieldOf(design))
                   = ToU64(NviPosOf(design) + D)
             /\ Field(Out, NviPosFieldOf(design) + 8)
                   = Field(In, NviPosFieldOf(design) + 8)
             /\ MovedFieldOffsets(MasterOffsetFields(design)) \subseteq patched
             /\ MovedFieldOffsets(NormOffsetFields(design)) \subseteq patched
             /\ \A x \in NormOffsetFields(design) :
                   Field(Out, x.off + D) = ToU64(x.val + D)

\* the bytes that a list takes in a file
EncodedSize(as) == Len(SerializeAttrs(as))

\* C10: delta is the encoded size of the new list minus that of the
\* original list as a signed number, and when it is negative every offset
\* that was patched holds its original value less the bytes removed
C10_SignedDelta ==
    /\ Edited =>
          /\ Small64(delta)
          /\ D = EncodedSize(newAttrs) - EncodedSize(h.origAttrs)
          /\ design.complete => h.origAttrs = DesignAttrs(design.keys)
    /\ Success /\ Regular /\ D < 0 =>
          \A x \in OffsetFields(design) :
              Field(Out, OutOff(x)) = ToU64(x.val + D)

C10_Witness ==
    /\ Success
    /\ Regular
    /\ D < 0
    /\ Len(design.master) = 1
    /\ Len(design.norm) = 1

====
